---- MODULE Spec2Model ----
\* lpc-cat (src/src/main.rs): session handshake, poller and stream
\* reconstruction loop of the LPC-Link2 SWO reader.
\*
\* Sequences are 1-based here and 0-based in the source: At and Slice do the
\* index shift, so their arguments are the source's indices.
EXTENDS Integers, Sequences, FiniteSets, TLC

\* ---------------------------------------------------------------- bounds
\* Size of the poll buffer. The source uses 1024; the model scales it down
\* so that every response length 0..MAX_PACKET can be enumerated.
MAX_PACKET == 7
\* Size of the zero-initialised handshake response arrays (1024 in the
\* source); 9 is the smallest size that holds every byte the handshake reads.
RESPONSE_LEN == 9
\* Number of poll commands issued in a run of the (unbounded) loop.
MaxPolls == 2
\* The device reports the last epoch before the u8 wrap and the ones after.
EpochCount == 3

\* ------------------------------------------------------ program constants
MYSTERIOUS_MODE == 255
CMD_OHAI == 31
OHAI_TAG == 56
CMD_INIT_UART == 3
CMD_SET_BIT_RATE == 1
CMD_POLL == 2
KIND_INCREMENTAL == 4
KIND_TOTAL == 130
LEVEL_MASK == 4095
LEVEL_SHIFT == 4096
U8 == 256

\* ------------------------------------------------------------- helpers
None == <<>>
Some(x) == <<x>>

\* s[i] of a Rust slice (0-based); the caller checks InBounds first.
At(s, i) == s[i + 1]
InBounds(s, i) == i < Len(s)
\* s[a..b] of a Rust slice; panics unless a <= b and b <= len.
SliceOk(s, a, b) == a <= b /\ b <= Len(s)
Slice(s, a, b) == SubSeq(s, a + 1, b)

Zeros(n) == [i \in 1..n |-> 0]
Take(s, n) == SubSeq(s, 1, IF n < Len(s) THEN n ELSE Len(s))

\* u32::to_le_bytes / u32::from_le_bytes
to_le_bytes(v) ==
    << v % 256, (v \div 256) % 256, (v \div 65536) % 256,
       (v \div 16777216) % 256 >>
from_le_bytes(b) ==
    b[1] + 256 * b[2] + 65536 * b[3] + 16777216 * b[4]

\* An addition that leaves the u8 range instead of wrapping.
unwrapped_add(a, b) == a + b

\* u8::wrapping_add
wrapping_add(a, b) == (a + b) % U8

\* check_cmd: TRUE for Ok(()), FALSE for Err("unexpected response")
check_cmd(c, expected) == c = expected

\* ------------------------------------------------------- the environment
\* Command line: the requested bit rate and the two flags.
Requested == {115200}
Achieved == {115200, 230400}
Args == [bitrate : Requested, allow_approx : BOOLEAN, no_cat : BOOLEAN]

\* A byte that is none of the opcodes and tags the program expects.
OtherByte ==
    CHOOSE b \in 0..255 :
        b \notin {CMD_OHAI, OHAI_TAG, CMD_INIT_UART, CMD_SET_BIT_RATE,
                  CMD_POLL, KIND_INCREMENTAL, KIND_TOTAL}

\* read() into a zero-initialised array: the device's bytes, then zeros.
IntoZeroed(msg) ==
    [i \in 1..RESPONSE_LEN |-> IF i <= Len(msg) THEN msg[i] ELSE 0]

OhaiReplies ==
    {<<>>} \cup {<<c, t>> : c \in {CMD_OHAI, OtherByte},
                           t \in {OHAI_TAG, OtherByte}}
UartReplies ==
    {<<c, 0, 0, 0, 0>> \o to_le_bytes(r) :
        c \in {CMD_INIT_UART, OtherByte}, r \in Achieved}
RateReplies ==
    {<<c>> \o to_le_bytes(r) :
        c \in {CMD_SET_BIT_RATE, OtherByte}, r \in Achieved}

\* Epochs and fill levels the device reports.
Epochs == {(U8 - 1 + k) % U8 : k \in 0..(EpochCount - 1)}
PayloadLen == MAX_PACKET - 2
MaxLevel == PayloadLen + 1
Levels == 0..MaxLevel

\* The byte the device captured at offset i of epoch e: distinct for the
\* distinct positions of the model, so that the bytes on stdout identify the
\* device positions they came from.
Data(e, i) == (e * 16 + i) % 256

\* Fill levels as the device packs them: start in the low 12 bits, end in
\* the next 12, sent as three little-endian bytes.
PackLevels(start, end) ==
    LET p == start + end * LEVEL_SHIFT
    IN  << p % 256, (p \div 256) % 256, (p \div 65536) % 256 >>

IncrementalReport(e, start, end) ==
    <<KIND_INCREMENTAL, e>> \o PackLevels(start, end)
        \o [k \in 1..(MAX_PACKET - 5) |-> Data(e, start + k - 1)]
TotalReport(e) ==
    <<KIND_TOTAL, e>> \o [k \in 1..(MAX_PACKET - 2) |-> Data(e, k - 1)]
OtherReport(e) ==
    <<OtherByte, e>> \o Zeros(MAX_PACKET - 2)

\* The reports include the one whose three fill-level bytes are all 0xFF:
\* both levels at the largest 12-bit value.
FullReports ==
    {IncrementalReport(e, s, t) : e \in Epochs, s \in Levels, t \in Levels}
        \cup {IncrementalReport(e, LEVEL_MASK, LEVEL_MASK) : e \in Epochs}
        \cup {TotalReport(e) : e \in Epochs}
        \cup {OtherReport(e) : e \in Epochs}
\* read() returns the first n bytes of a report, for any n.
PollReplies == {Take(f, n) : f \in FullReports, n \in 0..MAX_PACKET}

\* ------------------------------------------------------------ Handle::poll
NoResult == [kind |-> "None", epoch |-> 0, start |-> 0, end |-> 0,
             data |-> <<>>]
EmptyResult(e) == [kind |-> "Empty", epoch |-> e, start |-> 0, end |-> 0,
                   data |-> <<>>]
IncrementalResult(e, s, t, f) ==
    [kind |-> "Incremental", epoch |-> e, start |-> s, end |-> t, data |-> f]
TotalResult(e, p) ==
    [kind |-> "Total", epoch |-> e, start |-> 0, end |-> 0, data |-> p]

Returned(r) == [tag |-> "ok", result |-> r]
Failed == [tag |-> "err", result |-> NoResult]
Panicked == [tag |-> "panic", result |-> NoResult]

packed_levels(response) ==
    At(response, 2) + At(response, 3) * 256 + At(response, 4) * 65536

\* A fragment taken one byte early, over the last byte of the fill levels.
fragment_from_4(response, n) == Slice(response, 4, 4 + n)

\* &mut response[5..5 + n]
fragment(response, n) == Slice(response, 5, 5 + n)
\* &mut response[2..1024]
payload(response) == Slice(response, 2, MAX_PACKET)

\* A 0x04 arm that does not single out the all-zero fill levels.
incremental_without_empty(response, epoch) ==
    IF ~InBounds(response, 4) THEN Panicked
    ELSE
    LET packed == packed_levels(response)
        start == packed % (LEVEL_MASK + 1)
        end == (packed \div LEVEL_SHIFT) % 65536
    IN  IF end < start THEN Failed
        ELSE LET n == end - start
             IN  IF ~SliceOk(response, 5, 5 + n) THEN Panicked
                 ELSE Returned(IncrementalResult(epoch, start, end,
                                                 fragment(response, n)))

\* A 0x04 arm that takes the fill levels as two overlapping 16-bit fields.
incremental_with_16_bit_levels(response, epoch) ==
    IF ~InBounds(response, 4) THEN Panicked
    ELSE
    LET packed == packed_levels(response)
        start == packed % 65536
        end == (packed \div 256) % 65536
    IN  IF packed = 0 THEN Returned(EmptyResult(epoch))
        ELSE IF end < start THEN Failed
        ELSE LET n == end - start
             IN  IF ~SliceOk(response, 5, 5 + n) THEN Panicked
                 ELSE Returned(IncrementalResult(epoch, start, end,
                                                 fragment(response, n)))

\* The 0x04 arm of poll's match (lines 248-271).
incremental(response, epoch) ==
    IF ~InBounds(response, 4) THEN Panicked
    ELSE
    LET packed == packed_levels(response)
        start == packed % (LEVEL_MASK + 1)
        end == (packed \div LEVEL_SHIFT) % 65536
    IN  IF packed = 0 THEN Returned(EmptyResult(epoch))
        ELSE IF end < start THEN Failed
        ELSE LET n == end - start
             IN  IF ~SliceOk(response, 5, 5 + n) THEN Panicked
                 ELSE Returned(IncrementalResult(epoch, start, end,
                                                 fragment(response, n)))

\* The decoding of one response (lines 242-274): the returned value, an Err,
\* or a panic on an out-of-range index.
poll(response) ==
    IF ~InBounds(response, 0) THEN Panicked
    ELSE IF ~InBounds(response, 1) THEN Panicked
    ELSE
    LET kind == At(response, 0)
        epoch == At(response, 1)
    IN  IF kind = KIND_INCREMENTAL THEN incremental(response, epoch)
        ELSE IF kind = KIND_TOTAL THEN
            IF ~SliceOk(response, 2, MAX_PACKET) THEN Panicked
            ELSE Returned(TotalResult(epoch, payload(response)))
        ELSE Failed

\* ------------------------------------------------------------------ state
VARIABLES
    pc,           \* where main is: a step name or how the process ended
    args,         \* the parsed command line
    actual_rate,  \* Option<u32>: what set_bit_rate returned
    last,         \* Option<(u8, u16)>: the watermark
    response,     \* what the latest read left in its buffer: the response
                  \* array of a handshake exchange, buffer[..n] of a poll
    result,       \* (epoch, PollResult) of the poll of this iteration
    out,          \* the bytes written to stdout since the latest poll
    lost,         \* the "lost stream sync" notices since the latest poll
    cmds,         \* the command reports written so far
    io            \* the transport operations attempted so far

vars == <<pc, args, actual_rate, last, response, result, out, lost, cmds, io>>

Init ==
    /\ pc = "open"
    /\ args \in Args
    /\ actual_rate = None
    /\ last = None
    /\ response = <<>>
    /\ result = NoResult
    /\ out = <<>>
    /\ lost = 0
    /\ cmds = <<>>
    /\ io = <<>>

\* self.0.write(..)? fails: the error propagates out of main.
WriteFails(cmd) ==
    /\ cmds' = Append(cmds, cmd)
    /\ io' = Append(io, "write_err")
    /\ pc' = "err"

\* A read that is tried a second time after it failed.
ReadFails_retrying(cmd) ==
    /\ cmds' = Append(cmds, cmd)
    /\ io' = io \o <<"write", "read_err", "read_err">>
    /\ pc' = "err"

\* self.0.read(..)? fails after a successful write.
ReadFails(cmd) ==
    /\ cmds' = Append(cmds, cmd)
    /\ io' = io \o <<"write", "read_err">>
    /\ pc' = "err"

Exchanged(cmd) ==
    /\ cmds' = Append(cmds, cmd)
    /\ io' = io \o <<"write", "read">>

\* Lines 51-57: parsing vid and pid and opening the device either fail, and
\* main returns the error before any exchange, or give the handle.
Open ==
    /\ pc = "open"
    /\ pc' \in {"ohai", "err"}
    /\ UNCHANGED <<args, actual_rate, last, response, result, out, lost,
                   cmds, io>>

\* An ohai that checks the echoed opcode but not the tag.
ohai_ignoring_tag(resp) == check_cmd(At(resp, 0), CMD_OHAI)

\* Handle::ohai: Ok exactly when the echo and the tag are right.
ohai(resp) == check_cmd(At(resp, 0), CMD_OHAI) /\ At(resp, 1) = OHAI_TAG

Ohai ==
    /\ pc = "ohai"
    /\ \/ /\ WriteFails(<<CMD_OHAI, MYSTERIOUS_MODE>>)
          /\ UNCHANGED response
       \/ /\ ReadFails(<<CMD_OHAI, MYSTERIOUS_MODE>>)
          /\ UNCHANGED response
       \/ \E msg \in OhaiReplies :
            /\ Exchanged(<<CMD_OHAI, MYSTERIOUS_MODE>>)
            /\ response' = IntoZeroed(msg)
            /\ pc' = IF ohai(IntoZeroed(msg)) THEN "init_uart" ELSE "err"
    /\ UNCHANGED <<args, actual_rate, last, result, out, lost>>

\* An init_uart that does not check the echoed opcode.
init_uart_unchecked(resp) == TRUE

\* Handle::init_uart: the returned maximum rate is dropped by main.
init_uart(resp) == check_cmd(At(resp, 0), CMD_INIT_UART)

InitUart ==
    /\ pc = "init_uart"
    /\ \/ /\ WriteFails(<<CMD_INIT_UART>>)
          /\ UNCHANGED response
       \/ /\ ReadFails(<<CMD_INIT_UART>>)
          /\ UNCHANGED response
       \/ \E msg \in UartReplies :
            /\ Exchanged(<<CMD_INIT_UART>>)
            /\ response' = IntoZeroed(msg)
            /\ pc' = IF init_uart(IntoZeroed(msg)) THEN "set_bit_rate"
                     ELSE "err"
    /\ UNCHANGED <<args, actual_rate, last, result, out, lost>>

\* Handle::set_bit_rate: None for Err, Some(achieved rate) for Ok.
set_bit_rate(resp) ==
    IF check_cmd(At(resp, 0), CMD_SET_BIT_RATE)
    THEN Some(from_le_bytes(Slice(resp, 1, 5)))
    ELSE None

\* A rate check that does not consult --allow-approx.
RatePolicy_without_approx(a, rate) ==
    IF rate # a.bitrate THEN "exit1"
    ELSE IF a.no_cat THEN "exit0"
    ELSE "poll"

\* Lines 65-85: where main goes once set_bit_rate has returned rate.
RatePolicy(a, rate) ==
    IF rate # a.bitrate /\ ~a.allow_approx THEN "exit1"
    ELSE IF a.no_cat THEN "exit0"
    ELSE "poll"

\* The request set_bit_rate writes: the opcode, then the rate.
req(rate) == <<CMD_SET_BIT_RATE>> \o to_le_bytes(rate)

SetBitRate ==
    /\ pc = "set_bit_rate"
    /\ \/ /\ WriteFails(req(args.bitrate))
          /\ UNCHANGED <<actual_rate, response>>
       \/ /\ ReadFails(req(args.bitrate))
          /\ UNCHANGED <<actual_rate, response>>
       \/ \E msg \in RateReplies :
            LET r == set_bit_rate(IntoZeroed(msg))
            IN  /\ Exchanged(req(args.bitrate))
                /\ response' = IntoZeroed(msg)
                /\ actual_rate' = r
                /\ pc' = IF r = None THEN "err" ELSE RatePolicy(args, r[1])
    /\ UNCHANGED <<args, last, result, out, lost>>

\* The number of poll commands written so far.
Polls == Len(SelectSeq(cmds, LAMBDA c : c[1] = CMD_POLL))

\* One call of handle.poll(&mut buffer) at the top of the loop. What the
\* previous iteration put on stdout and stderr is no longer looked at.
Poll ==
    /\ pc = "poll"
    /\ Polls < MaxPolls
    /\ out' = <<>>
    /\ lost' = 0
    /\ \/ /\ WriteFails(<<CMD_POLL>>)
          /\ UNCHANGED <<response, result>>
       \/ /\ ReadFails(<<CMD_POLL>>)
          /\ UNCHANGED <<response, result>>
       \/ \E resp \in PollReplies :
            LET r == poll(resp)
            IN  /\ Exchanged(<<CMD_POLL>>)
                /\ response' = resp
                /\ result' = r.result
                /\ pc' = CASE r.tag = "ok" -> "handle"
                           [] r.tag = "err" -> "err"
                           [] OTHER -> "panic"
    /\ UNCHANGED <<args, actual_rate, last>>

\* The end of a loop iteration: the outcome, and with it the borrow of the
\* buffer, is dropped, and the loop polls again.
NextIteration ==
    /\ pc' = "poll"
    /\ response' = <<>>
    /\ result' = NoResult

\* PollResult::Empty arm: sleep and poll again.
HandleEmpty ==
    /\ pc = "handle"
    /\ result.kind = "Empty"
    /\ NextIteration
    /\ UNCHANGED <<args, actual_rate, last, out, lost, cmds, io>>

\* out.write_all(data)?: either all of data reaches stdout, or the write
\* fails after some proper prefix of it (write_all of nothing cannot fail).
WriteAll(data, next) ==
    \/ /\ out' = out \o data
       /\ next
    \/ /\ data # <<>>
       /\ \E k \in 0..(Len(data) - 1) : out' = out \o Take(data, k)
       /\ pc' = "err"
       /\ UNCHANGED <<last, response, result>>

\* A continuity test that forgets to compare the epochs.
continuous_ignoring_epoch(l, epoch, start) ==
    IF l # None THEN l[1][2] = start ELSE TRUE

\* A continuity test that forgets to compare the offsets.
continuous_ignoring_start(l, epoch, start) ==
    IF l # None THEN l[1][1] = epoch ELSE TRUE

\* A continuity test that holds the first data against a missing watermark.
continuous_needs_watermark(l, epoch, start) ==
    IF l # None THEN l[1][1] = epoch /\ l[1][2] = start ELSE FALSE

\* A continuity test that accepts a fragment that starts before the watermark.
continuous_accepting_overlap(l, epoch, start) ==
    IF l # None THEN l[1][1] = epoch /\ l[1][2] >= start ELSE TRUE

\* Lines 107-113.
continuous(l, epoch, start) ==
    IF l # None THEN l[1][1] = epoch /\ l[1][2] = start ELSE TRUE

\* PollResult::Incremental arm.
HandleIncremental ==
    /\ pc = "handle"
    /\ result.kind = "Incremental"
    /\ lost' = IF ~continuous(last, result.epoch, result.start)
               THEN lost + 1 ELSE lost
    /\ WriteAll(result.data,
                /\ last' = Some(<<result.epoch, result.end>>)
                /\ NextIteration)
    /\ UNCHANGED <<args, actual_rate, cmds, io>>

\* A Total arm that dumps the whole packet when the epochs differ.
total_arm_dumping_on_skip(l, epoch, packet) ==
    IF l # None THEN
        IF epoch = l[1][1] THEN
            IF SliceOk(packet, l[1][2], Len(packet))
            THEN [act |-> "write",
                  data |-> Slice(packet, l[1][2], Len(packet))]
            ELSE [act |-> "panic", data |-> <<>>]
        ELSE [act |-> "write", data |-> packet]
    ELSE [act |-> "write", data |-> packet]

\* A Total arm that holds the first packet against a missing watermark.
total_arm_rejecting_first(l, epoch, packet) ==
    IF l # None THEN
        IF epoch = l[1][1] THEN
            IF SliceOk(packet, l[1][2], Len(packet))
            THEN [act |-> "write",
                  data |-> Slice(packet, l[1][2], Len(packet))]
            ELSE [act |-> "panic", data |-> <<>>]
        ELSE [act |-> "lost", data |-> <<>>]
    ELSE [act |-> "lost", data |-> <<>>]

\* Lines 125-139: what the Total arm does with the packet before it sets
\* the watermark: write some of it, report lost sync, or panic on the slice.
total_arm(l, epoch, packet) ==
    IF l # None THEN
        IF epoch = l[1][1] THEN
            IF SliceOk(packet, l[1][2], Len(packet))
            THEN [act |-> "write",
                  data |-> Slice(packet, l[1][2], Len(packet))]
            ELSE [act |-> "panic", data |-> <<>>]
        ELSE [act |-> "lost", data |-> <<>>]
    ELSE [act |-> "write", data |-> packet]

\* PollResult::Total arm.
HandleTotal ==
    /\ pc = "handle"
    /\ result.kind = "Total"
    /\ LET a == total_arm(last, result.epoch, result.data)
           done == /\ last' = Some(<<wrapping_add(result.epoch, 1), 0>>)
                   /\ NextIteration
       IN  CASE a.act = "panic" ->
                    /\ pc' = "panic"
                    /\ UNCHANGED <<last, out, lost, response, result>>
             [] a.act = "lost" ->
                    /\ lost' = lost + 1
                    /\ UNCHANGED out
                    /\ done
             [] OTHER ->
                    /\ WriteAll(a.data, done)
                    /\ UNCHANGED lost
    /\ UNCHANGED <<args, actual_rate, cmds, io>>

Next ==
    \/ Open
    \/ Ohai
    \/ InitUart
    \/ SetBitRate
    \/ Poll
    \/ HandleEmpty
    \/ HandleIncremental
    \/ HandleTotal

Spec == Init /\ [][Next]_vars

\* How the process ended, and the exit status it then has: 1 from
\* process::exit(1) and from main returning an Err, 0 from main returning
\* Ok(()), 101 from a panic.
Exited == pc \in {"exit0", "exit1", "err", "panic"}
ExitCode ==
    CASE pc = "exit0" -> 0
      [] pc = "exit1" -> 1
      [] pc = "err" -> 1
      [] pc = "panic" -> 101
      [] OTHER -> -1

\* ------------------------------------------------------------ properties
\* The watermark's fields, where there is one.
last_epoch == last[1][1]
last_end == last[1][2]

\* The bytes the device captured at offsets a..b-1 of epoch e.
Run(e, a, b) == [i \in 1..(b - a) |-> Data(e, a + i - 1)]

IsPrefix(s, t) == Len(s) <= Len(t) /\ s = SubSeq(t, 1, Len(s))

\* The step handles the latest poll outcome, and stdout took what was written.
Handles(kind) == pc = "handle" /\ result.kind = kind /\ pc' # "err"

\* C1: handling Total{epoch, payload} with the watermark at (epoch,
\* last_end), for every last_end, appends exactly payload[last_end..] to
\* stdout, raises no sync-loss notice and sets the watermark to
\* ((epoch + 1) mod 256, 0) (unless the write to stdout fails).
C1_TotalSameEpochTail ==
    [][ (Handles("Total") /\ last # None /\ last_epoch = result.epoch)
        => /\ out' = out \o SubSeq(payload(response), last_end + 1,
                                    Len(payload(response)))
           /\ lost' = lost
           /\ last' = Some(<<(result.epoch + 1) % 256, 0>>) ]_vars

\* C2: handling Incremental{epoch, start, end, fragment} with a watermark
\* that differs from (epoch, start) raises exactly one sync-loss notice,
\* appends the whole fragment to stdout and sets the watermark to
\* (epoch, end) (unless the write to stdout fails).
C2_IncrementalDiscontinuity ==
    [][ (/\ Handles("Incremental")
         /\ last # None
         /\ (last_epoch # result.epoch \/ last_end # result.start))
        => /\ lost' = lost + 1
           /\ out' = out \o SubSeq(response, 6,
                                    5 + result.end - result.start)
           /\ last' = Some(<<result.epoch, result.end>>) ]_vars

\* A discontinuous Incremental with a non-empty fragment has been handled:
\* the notice is on stderr, the fragment on stdout, the watermark at its end.
C2_Witness ==
    /\ pc = "poll"
    /\ lost = 1
    /\ out # <<>>
    /\ last # None
    /\ last_end >= Len(out)
    /\ out = Run(last_epoch, last_end - Len(out), last_end)

\* C3: handling Incremental{epoch, start, end, fragment} with the watermark
\* at (epoch, start) appends the whole fragment to stdout, raises no
\* sync-loss notice and sets the watermark to (epoch, end) (unless the write
\* to stdout fails); stdout is cumulative, so a chain of such outcomes
\* yields the concatenation of their fragments with no notice.
C3_IncrementalContinuity ==
    [][ (/\ Handles("Incremental")
         /\ last = Some(<<result.epoch, result.start>>))
        => /\ out' = out \o SubSeq(response, 6,
                                    5 + result.end - result.start)
           /\ lost' = lost
           /\ last' = Some(<<result.epoch, result.end>>) ]_vars

\* The loop is handling an Incremental with a non-empty fragment that
\* starts, past offset 0, where the watermark stands.
C3_Witness ==
    /\ pc = "handle"
    /\ result.kind = "Incremental"
    /\ result.start > 0
    /\ result.end > result.start
    /\ last = Some(<<result.epoch, result.start>>)

\* C4: handling Incremental{epoch, start, end, fragment} with no watermark
\* yet, whatever start is, appends the whole fragment to stdout, raises no
\* sync-loss notice and sets the watermark to (epoch, end) (unless the write
\* to stdout fails).
C4_FirstPacketAccepted ==
    [][ (Handles("Incremental") /\ last = None)
        => /\ out' = out \o SubSeq(response, 6,
                                    5 + result.end - result.start)
           /\ lost' = lost
           /\ last' = Some(<<result.epoch, result.end>>) ]_vars

\* The first poll gave an Incremental that starts past offset 0, and it has
\* been handled: its fragment is on stdout, without a notice.
C4_Witness ==
    /\ pc = "poll"
    /\ Polls = 1
    /\ lost = 0
    /\ out # <<>>
    /\ last # None
    /\ last_end > Len(out)
    /\ out = Run(last_epoch, last_end - Len(out), last_end)

\* C5: handling Total{epoch, payload} with a watermark of another epoch
\* writes nothing to stdout, raises a sync-loss notice and sets the
\* watermark to ((epoch + 1) mod 256, 0).
C5_TotalEpochSkip ==
    [][ (/\ pc = "handle"
         /\ result.kind = "Total"
         /\ last # None
         /\ last_epoch # result.epoch)
        => /\ out' = out
           /\ lost' = lost + 1
           /\ last' = Some(<<(result.epoch + 1) % 256, 0>>)
           /\ pc' = "poll" ]_vars

\* A Total of another epoch than the watermark's has been handled: the
\* notice is on stderr, nothing on stdout, the watermark at offset 0 (where
\* no Incremental leaves it).
C5_Witness ==
    /\ pc = "poll"
    /\ Polls = 2
    /\ lost = 1
    /\ out = <<>>
    /\ last # None
    /\ last_end = 0

\* C6: every handled outcome writes a run of consecutive device positions
\* that ends right before the new watermark (after a Total: the end of its
\* epoch, the watermark being the start of the next); and unless it raises
\* a sync-loss notice, that run starts exactly at the old watermark. So
\* between notices stdout carries every device position once, in order.
C6_NoDuplicationNoSilentLoss ==
    [][ (pc = "handle" /\ pc' # "panic")
        => LET e == result.epoch
               from == IF last # None /\ lost' = 0 /\ result.kind # "Empty"
                       THEN last_end
                       ELSE IF result.kind = "Incremental" THEN result.start
                       ELSE 0
               upto == CASE result.kind = "Incremental" -> result.end
                         [] result.kind = "Total" -> PayloadLen
                         [] OTHER -> from
               whole == IF lost' = 0 \/ result.kind = "Incremental"
                        THEN Run(e, from, upto) ELSE <<>>
           IN  /\ (last # None /\ lost' = 0 /\ result.kind # "Empty")
                    => last_epoch = e
               /\ IF pc' = "err"
                  THEN IsPrefix(out', whole) /\ out' # whole /\ last' = last
                  ELSE /\ out' = whole
                       /\ last' = CASE result.kind = "Incremental" ->
                                           Some(<<e, upto>>)
                                    [] result.kind = "Total" ->
                                           Some(<<(e + 1) % 256, 0>>)
                                    [] OTHER -> last ]_vars

\* After an Incremental and then the Total of the same epoch, stdout got the
\* tail of the payload from the watermark on, with no notice.
C6_Witness ==
    /\ pc = "poll"
    /\ Polls = 2
    /\ lost = 0
    /\ out # <<>>
    /\ Len(out) < PayloadLen
    /\ last # None
    /\ last_end = 0
    /\ out = Run((last_epoch + 255) % 256, PayloadLen - Len(out), PayloadLen)

\* C7: a Total at epoch 255 that is handled leaves the watermark at (0, 0),
\* the successor epoch being taken mod 256, and an Incremental of epoch 0
\* that starts at 0 is then continuous: it raises no sync-loss notice.
C7_EpochWraparound ==
    [][ /\ (pc = "handle" /\ result.kind = "Total" /\ result.epoch = 255
            /\ pc' = "poll")
           => last' = Some(<<0, 0>>)
        /\ (pc = "handle" /\ result.kind = "Incremental"
            /\ result.epoch = 0 /\ result.start = 0
            /\ last = Some(<<0, 0>>))
           => lost' = 0 ]_vars

\* The watermark (0, 0), which only a Total at epoch 255 leaves, stands
\* while the loop handles an Incremental of epoch 0 that starts at 0.
C7_Witness ==
    /\ pc = "handle"
    /\ last = Some(<<0, 0>>)
    /\ result.kind = "Incremental"
    /\ result.epoch = 0
    /\ result.start = 0
    /\ result.end > 0

\* An incremental-tagged response whose packed fill levels are zero.
IsEmptyResponse(r) ==
    /\ Len(r) >= 5
    /\ r[1] = KIND_INCREMENTAL
    /\ r[3] = 0 /\ r[4] = 0 /\ r[5] = 0

\* C8: handling an Empty outcome, whatever the watermark and whatever epoch
\* the response carries, writes nothing to stdout, raises no sync-loss
\* notice, leaves the watermark unchanged and goes on to the next poll.
C8_EmptyIsNoOp ==
    [][ (pc = "handle" /\ IsEmptyResponse(response))
        => /\ out' = out
           /\ lost' = lost
           /\ last' = last
           /\ pc' = "poll" ]_vars

\* The loop is handling an Empty that carries another epoch than the
\* watermark's.
C8_Witness ==
    /\ pc = "handle"
    /\ result.kind = "Empty"
    /\ IsEmptyResponse(response)
    /\ last # None
    /\ last_epoch # result.epoch

\* The fill levels as the wire format defines them.
WireStart(r) == (r[3] + 256 * r[4] + 65536 * r[5]) % 4096
WireEnd(r) == (r[3] + 256 * r[4] + 65536 * r[5]) \div 4096

\* A response with a kind tag that is neither 0x04 nor 0x82, or an
\* incremental-tagged one with end < start.
Malformed(r) ==
    /\ Len(r) >= 1
    /\ \/ r[1] \notin {KIND_INCREMENTAL, KIND_TOTAL}
       \/ /\ r[1] = KIND_INCREMENTAL
          /\ Len(r) >= 5
          /\ WireEnd(r) < WireStart(r)

\* The step is a poll whose read returned a response.
PollRead == pc = "poll" /\ io' = io \o <<"write", "read">>

\* C9: whatever the watermark, a response with an unknown kind tag, or an
\* incremental one with end < start, makes poll return an error: the loop
\* ends there with nothing written to stdout for it and the watermark as it
\* was, and nothing is done after the error (no further poll).
C9_MalformedIsFatal ==
    [][ /\ (PollRead /\ Malformed(response'))
           => (pc' = "err" /\ out' = <<>> /\ last' = last)
        /\ pc # "err" ]_vars

\* C10: once set_bit_rate has returned the achieved rate, the process ends
\* with exit status 1 and no poll command issued exactly when the rate
\* differs from the requested one and --allow-approx is off; otherwise, with
\* --no-cat it ends with status 0 and no poll command issued, and without
\* it the polling loop is entered.
C10_RatePolicy ==
    actual_rate # None =>
        LET refused == actual_rate[1] # args.bitrate /\ ~args.allow_approx
        IN  /\ (Exited /\ ExitCode = 1 /\ Polls = 0) <=> refused
            /\ (~refused /\ args.no_cat) => (pc = "exit0" /\ Polls = 0)
            /\ (~refused /\ ~args.no_cat) =>
                   \/ pc \in {"poll", "handle"}
                   \/ (Polls > 0 /\ pc \in {"err", "panic"})

\* The probe answered with another rate than the requested one, exactness
\* was required, and the process ended with status 1 before any poll.
C10_Witness ==
    /\ actual_rate # None
    /\ actual_rate[1] # args.bitrate
    /\ ~args.allow_approx
    /\ pc = "exit1"
    /\ ExitCode = 1
    /\ Polls = 0
    /\ cmds[Len(cmds)][1] = CMD_SET_BIT_RATE

\* The step leaves the polling loop.
LoopEnds == pc \in {"poll", "handle"} /\ pc' \notin {"poll", "handle"}
\* handle.poll(..)? returned an Err: the transport failed or the response
\* did not pass validation.
PollFails == pc = "poll" /\ pc' = "err"
\* out.write_all(..)? returned an Err.
WriteAllFails == pc = "handle" /\ pc' = "err"

\* C11: a step that raises a sync-loss notice (an Incremental that is not
\* continuous, a Total of another epoch) goes on to the top of the loop,
\* where the next poll is issued, unless its write to stdout fails; and the
\* polling loop is only ever left by a poll that returns an error or by a
\* failing write to stdout.
C11_SyncLossNeverStopsLoop ==
    [][ /\ (pc = "handle" /\ lost' > lost /\ ~WriteAllFails) => pc' = "poll"
        /\ LoopEnds => (PollFails \/ WriteAllFails) ]_vars

\* C12: handling Total{epoch, payload} with no watermark yet appends the
\* whole payload (the response from offset 2 on) to stdout, raises no
\* sync-loss notice and sets the watermark to ((epoch + 1) mod 256, 0)
\* (unless the write to stdout fails).
C12_TotalAsFirstObservation ==
    [][ (Handles("Total") /\ last = None)
        => /\ out' = out \o SubSeq(response, 3, Len(response))
           /\ Len(out') = Len(out) + MAX_PACKET - 2
           /\ lost' = lost
           /\ last' = Some(<<(result.epoch + 1) % 256, 0>>) ]_vars

\* The first poll gave a Total and it has been handled: the whole payload
\* of its epoch is on stdout, without a notice, and the watermark is at the
\* start of the next epoch.
C12_Witness ==
    /\ pc = "poll"
    /\ Polls = 1
    /\ lost = 0
    /\ last # None
    /\ last_end = 0
    /\ out = Run((last_epoch + 255) % 256, 0, PayloadLen)
    /\ Len(out) = MAX_PACKET - 2

\* The step is the ohai exchange, and its read returned a response.
OhaiRead == pc = "ohai" /\ io' = io \o <<"write", "read">>

\* C13: ohai succeeds (and main goes on to init_uart) exactly when byte 0
\* of the response is 0x1F and byte 1 is 0x38; otherwise it returns an
\* error, the process ends with a nonzero status, and the only command
\* sent in the whole run is the ohai one: nothing is sent once the process
\* has ended.
C13_OhaiValidation ==
    [][ /\ OhaiRead =>
            IF response'[1] = 31 /\ response'[2] = 56
            THEN pc' = "init_uart"
            ELSE /\ pc' = "err"
                 /\ cmds' = << <<31, 255>> >>
        /\ pc = "err" => cmds' = cmds ]_vars

\* The device echoed the opcode of ohai with another tag than 0x38: the
\* process ended with status 1 having sent the ohai command only.
C13_Witness ==
    /\ pc = "err"
    /\ ExitCode = 1
    /\ io = <<"write", "read">>
    /\ response[1] = 31
    /\ response[2] # 56
    /\ \A i \in 1..Len(cmds) : cmds[i][1] \notin {3, 1, 2}

\* C14: for every response tagged 0x04 that carries the three fill-level
\* bytes, whatever its length: poll returns Empty exactly when the packed
\* levels are zero; otherwise, with start the low 12 bits and end the next
\* 12, when end >= start it returns Incremental{start, end, fragment} with
\* fragment exactly the end - start bytes from offset 5 of the response.
C14_IncrementalDecoding ==
    [][ (PollRead /\ Len(response') >= 5 /\ response'[1] = 4)
        => LET start == WireStart(response')
               end == WireEnd(response')
           IN  /\ (pc' = "handle" /\ result'.kind = "Empty")
                    <=> (start = 0 /\ end = 0)
               /\ (end >= start /\ end > 0)
                    => /\ pc' = "handle"
                       /\ result'.kind = "Incremental"
                       /\ result'.epoch = response'[2]
                       /\ result'.start = start
                       /\ result'.end = end
                       /\ Len(result'.data) = end - start
                       /\ result'.data
                            = SubSeq(response', 6, 5 + end - start) ]_vars

\* C15: for every response tagged 0x82, whatever number of bytes the read
\* returned, poll returns Total with the epoch of byte 1 and a payload of
\* exactly 1022 bytes (MAX_PACKET - 2 here), the bytes of the response from
\* offset 2 on.
C15_TotalDecoding ==
    [][ (PollRead /\ Len(response') >= 1 /\ response'[1] = 130)
        => /\ pc' = "handle"
           /\ result'.kind = "Total"
           /\ result'.epoch = response'[2]
           /\ Len(result'.data) = MAX_PACKET - 2
           /\ \A i \in 1..(Len(response') - 2) :
                result'.data[i] = response'[i + 2] ]_vars

\* The opcodes of the commands sent so far.
Opcodes == [i \in 1..Len(cmds) |-> cmds[i][1]]
\* The step sends one more command, with opcode op.
Sends(op) ==
    /\ Len(cmds') = Len(cmds) + 1
    /\ SubSeq(cmds', 1, Len(cmds)) = cmds
    /\ cmds'[Len(cmds')][1] = op
\* The first k exchanges each wrote their command and read a response.
Completed(k) ==
    /\ Len(io) >= 2 * k
    /\ \A i \in 1..(2 * k) : io[i] = IF i % 2 = 1 THEN "write" ELSE "read"

\* C16: the commands are sent in the order 0x1F, 0x03, 0x01, each once
\* (0x1F first; 0x03 only after the one 0x1F exchange succeeded; 0x01 only
\* after the one 0x03 exchange succeeded), and a poll command 0x02 is only
\* sent with exactly these three before the polls and all three exchanges
\* completed successfully.
C16_HandshakeOrdering ==
    [][ /\ cmds' # cmds => \E op \in {31, 3, 1, 2} : Sends(op)
        /\ Sends(31) => cmds = <<>>
        /\ Sends(3) => /\ Opcodes = <<31>>
                       /\ Completed(1)
                       /\ response[1] = 31 /\ response[2] = 56
        /\ Sends(1) => /\ Opcodes = <<31, 3>>
                       /\ Completed(2)
                       /\ response[1] = 3
        /\ Sends(2) => /\ Len(cmds) >= 3
                       /\ SubSeq(Opcodes, 1, 3) = <<31, 3, 1>>
                       /\ \A i \in 4..Len(cmds) : Opcodes[i] = 2
                       /\ Completed(3)
                       /\ actual_rate # None
                       /\ Len(cmds) = 3 => response[1] = 1 ]_vars

\* The first poll command has been sent, after the three commands of the
\* handshake in their order.
C16_Witness ==
    /\ Opcodes = <<31, 3, 1, 2>>
    /\ Completed(3)

\* C17: the transport operations are, in turn, a write and a read, the
\* first one a write, one pair for each command, so that a command is only
\* written once the response to the one before has been read; and an
\* operation that failed is the last one of the run, which ended with an
\* error.
C17_RequestResponseAlternation ==
    /\ \A i \in 1..Len(io) :
         /\ io[i] \in (IF i % 2 = 1 THEN {"write", "write_err"}
                       ELSE {"read", "read_err"})
         /\ io[i] \in {"write_err", "read_err"}
              => (i = Len(io) /\ pc = "err" /\ ExitCode = 1)
    /\ Len(cmds) = (Len(io) + 1) \div 2
    /\ (Len(io) % 2 = 1) => io[Len(io)] = "write_err"

\* The read of the first poll failed after three complete exchanges: the
\* run ended there, with the failed read the last transport operation.
C17_Witness ==
    /\ pc = "err"
    /\ io = <<"write", "read", "write", "read", "write", "read",
              "write", "read_err">>
    /\ Opcodes = <<31, 3, 1, 2>>

\* C18: an Incremental that is judged continuous (no sync-loss notice)
\* against an existing watermark leaves a watermark of the same epoch whose
\* offset is not below the old one; and every Total after which the loop
\* goes on, whether or not it continued the watermark, leaves the watermark
\* at offset 0 of the epoch after the Total's, mod 256.
C18_WatermarkMonotonicity ==
    [][ /\ (/\ pc = "handle"
            /\ result.kind = "Incremental"
            /\ last # None
            /\ lost' = lost)
           => /\ last' # None
              /\ last'[1][1] = last_epoch
              /\ last'[1][2] >= last_end
        /\ (pc = "handle" /\ result.kind = "Total" /\ pc' = "poll")
           => /\ last' # None
              /\ last'[1][1] = (response[2] + 1) % 256
              /\ last'[1][2] = 0 ]_vars

\* After an Incremental of epoch 255, the Total of that epoch has been
\* handled as its continuation (the tail of the payload is on stdout, with
\* no notice): the watermark is back at offset 0, in epoch 0.
C18_Witness ==
    /\ pc = "poll"
    /\ Polls = 2
    /\ lost = 0
    /\ last = Some(<<0, 0>>)
    /\ \E k \in 1..(PayloadLen - 1) : out = Run(255, k, PayloadLen)

\* C19: the loop never aborts abnormally: whatever the response (any
\* length, any content) and the watermark, no index or slice of poll and of
\* the Total arm is out of range, so the process never panics; in
\* particular, whenever a Total of the watermark's epoch is to be handled,
\* the watermark's offset is at most the length of the payload.
C19_NoAbnormalAbort ==
    /\ pc # "panic"
    /\ (/\ pc = "handle"
        /\ result.kind = "Total"
        /\ last # None
        /\ last_epoch = result.epoch)
       => last_end <= Len(result.data)

\* The watermark is None, or Some((epoch, offset)) with a u8 epoch and a
\* 12-bit offset.
WatermarkInDomain ==
    \/ last = None
    \/ /\ Len(last) = 1
       /\ last_epoch \in 0..255
       /\ last_end \in 0..4095

\* C20: the watermark is None until the first poll; a handled Incremental
\* or Total outcome makes it Some, and once Some it never is None again;
\* its epoch is always in 0..255 and its offset at most 4095; and only a
\* step that handles an Incremental or a Total outcome changes it.
C20_WatermarkDomain ==
    [][ /\ Polls = 0 => last = None
        /\ WatermarkInDomain /\ WatermarkInDomain'
        /\ last # None => last' # None
        /\ (pc = "handle" /\ result.kind \in {"Incremental", "Total"}
            /\ pc' = "poll") => last' # None
        /\ (pc = "handle" /\ result.kind = "Empty") => last' = last
        /\ last' # last
             => (pc = "handle" /\ result.kind \in {"Incremental", "Total"})
      ]_vars

\* A first Incremental with both fill levels at 4095 has been handled: the
\* watermark is Some, with the largest offset the wire format can carry.
C20_Witness ==
    /\ pc = "poll"
    /\ Polls = 1
    /\ last # None
    /\ last_epoch \in 0..255
    /\ last_end = 4095

====
